---- MODULE Spec2Model ----
(***************************************************************************)
(* Model of benchmark.py: a Streamlit script that runs the selected        *)
(* solvers (Gurobi, HiGHS, SCIP, CBC) one after another on an uploaded     *)
(* model file, collects one result dictionary per adapter call, captures   *)
(* the solvers' standard output, and renders a table and a bar chart.      *)
(*                                                                         *)
(* The solver libraries are outside the repository.  What a backend does   *)
(* in one adapter call is an input of the model (a "backend behaviour"):   *)
(* whether reading the file or optimizing raises, and, for every value     *)
(* the adapter reads back, either the value reported or a raised error.    *)
(***************************************************************************)
EXTENDS Integers, Sequences, FiniteSets, TLC

VARIABLES
    pc,            \* where the script run stands
    run,           \* number of runs submitted so far
    solvers,       \* the multiselect's value: solver names in selection order
    i,             \* index (1-based) of the loop's current solver
    phase,         \* "loop": between adapter calls, "call": inside one
    results_list,  \* the result dictionaries appended so far in this run
    invoked,       \* solver names whose adapter call has started in this run
    reports,       \* the backend behaviour met by each finished call of this run
    sys_stdout,    \* sys.stdout: the current standard-output target
    old_targets,   \* redirect_stdout._old_targets: the targets to restore
    buffer,        \* the StringIO's text inside an st_capture region
    written,       \* the strings written to stdout in the current region
    sink,          \* what output_func last received, or NotCalled
    highs_log,     \* the file highs.log in the working directory
    highslog,      \* the text shown in the HiGHS tab, or NotShown
    removed,       \* whether run_highs deleted an existing highs.log in this run
    chart,         \* the colour scale of this run's chart: <<label, colour>> pairs
    last_chart     \* the colour scale of the last chart drawn by an earlier run

vars == <<pc, run, solvers, i, phase, results_list, invoked, reports,
          sys_stdout, old_targets, buffer, written, sink,
          highs_log, highslog, removed, chart, last_chart>>

(***************************************************************************)
(* Bounds of the model.                                                    *)
(***************************************************************************)
\* runs submitted one after another in the same working directory
MaxRuns == 2
\* writes to standard output during one adapter call
MaxWrites == 2

(***************************************************************************)
(* Values.                                                                 *)
(***************************************************************************)
SolverNames == {"Gurobi", "HiGHS", "SCIP", "CBC"}
Metrics == {"iterations", "nodes", "gap", "objective"}

\* Python's None, a value v reported by a backend, and a read that raises.
None == <<"None">>
Val(v) == <<"val", v>>
Raise == <<"raise">>

MetricValues == {Val(0), Val(1)}
MetricReads == MetricValues \cup {Raise}

\* Gurobi's integer status codes met by the model (OPTIMAL, INFEASIBLE, TIME_LIMIT).
StatusCodes == {2, 3, 9}

\* What a backend does during one adapter call.
Backends ==
    [fail : {"none", "read", "optimize"},
     iterations : MetricReads, nodes : MetricReads,
     gap : MetricReads, objective : MetricReads,
     status : StatusCodes, time : {Val(1)}]

\* The behaviours the full pipeline is run against: every value reported
\* (all zero or all one), one failing step, or exactly one failing read.
BackendCases ==
    {b \in Backends :
        /\ b.status = 2
        /\ \/ /\ b.fail = "none"
              /\ \E v \in MetricValues : \A m \in Metrics : b[m] = v
           \/ /\ b.fail # "none"
              /\ \A m \in Metrics : b[m] = Val(1)
           \/ /\ b.fail = "none"
              /\ \E m \in Metrics :
                    /\ b[m] = Raise
                    /\ \A n \in Metrics \ {m} : b[n] = Val(1)}

\* The behaviours the sequences of runs are run against: every value
\* reported, or a failing read of the file, or a failing optimize.
RunCases == {b \in BackendCases : \A m \in Metrics : b[m] = Val(1)}

\* The outcome of an adapter call: a returned dictionary or a raised error.
Raised == [kind |-> "raise"]
Returned(rec) == [kind |-> "return", rec |-> rec]

(***************************************************************************)
(* The solver adapters.  Each takes the backend behaviour b of the call    *)
(* and gives the call's outcome.                                           *)
(***************************************************************************)
\* try: x = <read>  except: x = None
ReadOrZero(x) == IF x = Raise THEN Val(0) ELSE x
ReadOrNone(x) == IF x = Raise THEN None ELSE x

\* A dictionary display evaluates every value; one raising read raises the call.
AnyRaises(reads) == \E x \in reads : x = Raise

statuscodes ==
    <<"LOADED", "OPTIMAL", "INFEASIBLE", "INF_OR_UNBD", "UNBOUNDED", "CUTOFF",
      "ITERATION_LIMIT", "NODE_LIMIT", "TIME_LIMIT", "SOLUTION_LIMIT",
      "INTERRUPTED", "NUMERIC", "SUBOPTIMAL", "INPROGRESS", "USER_OBJ_LIMIT",
      "WORK_LIMIT", "MEM_LIMIT">>

run_cbc(b) ==
    IF b.fail # "none" \/ AnyRaises({b.gap, b.objective})
    THEN Raised
    ELSE Returned([solver |-> "CBC",
                   time |-> b.time,
                   iterations |-> None,
                   nodes |-> None,
                   gap |-> b.gap,
                   objective |-> b.objective,
                   status |-> b.status])

run_highs(b) ==
    IF b.fail # "none" \/ AnyRaises({b.iterations, b.nodes, b.gap, b.objective})
    THEN Raised
    ELSE Returned([solver |-> "HiGHS x.y.z",
                   time |-> b.time,
                   iterations |-> b.iterations,
                   nodes |-> b.nodes,
                   gap |-> b.gap,
                   objective |-> b.objective,
                   status |-> b.status])

run_pyscipopt(b) ==
    IF b.fail # "none" \/ AnyRaises({b.iterations, b.nodes, b.gap})
    THEN Raised
    ELSE LET objval == ReadOrNone(b.objective)
         IN  Returned([solver |-> "SCIP x.y.z",
                       time |-> b.time,
                       iterations |-> b.iterations,
                       nodes |-> b.nodes,
                       gap |-> b.gap,
                       objective |-> objval,
                       status |-> b.status])

run_gurobi(b) ==
    IF b.fail # "none" \/ AnyRaises({b.iterations, b.nodes})
    THEN Raised
    ELSE LET gap == ReadOrNone(b.gap)
             objval == ReadOrNone(b.objective)
         IN  Returned([solver |-> "Gurobi x.y.z",
                       iterations |-> b.iterations,
                       nodes |-> b.nodes,
                       objective |-> objval,
                       gap |-> gap,
                       time |-> b.time,
                       status |-> statuscodes[b.status]])

\* The branch of the loop body taken for solver s.
RunAdapter(s, b) ==
    CASE s = "Gurobi" -> run_gurobi(b)
      [] s = "HiGHS"  -> run_highs(b)
      [] s = "SCIP"   -> run_pyscipopt(b)
      [] s = "CBC"    -> run_cbc(b)

\* The values each adapter reads back from its backend after optimize.
Queried(s) == IF s = "CBC" THEN {"gap", "objective"} ELSE Metrics

(***************************************************************************)
(* highs.log.  The file is [exists, text]; text is the sequence of lines,  *)
(* each line tagged with the number of the run whose solve wrote it.       *)
(***************************************************************************)
NoFile == [exists |-> FALSE, text |-> <<>>]

\* if os.path.exists("highs.log"): os.remove("highs.log")
KeepLog(fs) == fs
RemoveLog(fs) == IF fs.exists THEN NoFile ELSE fs

\* setOptionValue("log_file", ...) then run(): HiGHS opens the file for
\* appending (creating it when absent) and the solve of run r logs to it.
WriteLog(fs, r) == [exists |-> TRUE, text |-> fs.text \o <<r>>]

\* highs.log after run_highs met behaviour b in run r.
HighsFiles(fs, b, r) ==
    IF b.fail = "read" THEN fs ELSE WriteLog(RemoveLog(fs), r)

\* Whether that call took the os.remove branch.
HighsRemoved(fs, b) == b.fail # "read" /\ fs.exists

(***************************************************************************)
(* st_capture.                                                             *)
(***************************************************************************)
UsesCapture(s) == s \in {"Gurobi", "SCIP", "CBC"}

\* old_write(string): the StringIO's text after the write
old_write(buf, string) == buf \o string

\* new_write(string): what output_func receives, stdout.getvalue() after old_write
ForwardWriteOnly(buf, string) == string
Forwarded(buf, string) == old_write(buf, string)

\* Leaving the with statement, normally or with an error passing through:
\* redirect_stdout.__exit__ sets sys.stdout to the target saved on entry.
RestoreUnlessRaising(olds, cur, raising) == IF raising THEN cur ELSE olds[Len(olds)]
RestoreStdout(olds, cur, raising) == olds[Len(olds)]

RECURSIVE Concat(_)
Concat(ws) == IF ws = <<>> THEN "" ELSE Head(ws) \o Concat(Tail(ws))

(***************************************************************************)
(* The result list and the chart.                                          *)
(***************************************************************************)
\* results_list.append(...)
CollectFirst(lst, rec) == <<rec>> \o lst
CollectResult(lst, rec) == Append(lst, rec)

range == <<"#DD2113", "green", "#1E3AC5", "#004746">>

\* alt.Scale(domain=results["solver"].tolist(), range=range): the k-th label
\* of the table is drawn in the k-th colour.
ColourScale(results) ==
    {<<results[k].solver, range[k]>> : k \in 1..Len(results)}

(***************************************************************************)
(* The script.                                                             *)
(***************************************************************************)
NotCalled == <<"not called">>
NotShown == <<"not shown">>
Text(t) == <<"text", t>>

\* What a backend may print in one write.
Strings == {"x", "y\n"}

\* The values st.multiselect can return: the chosen options, each once, in
\* the order the user chose them.
Selections ==
    UNION {{sel \in [1..n -> SolverNames] :
                \A j, k \in 1..n : j # k => sel[j] # sel[k]} : n \in 0..4}

SingleSelections == {sel \in Selections : Len(sel) = 1}

Init ==
    /\ pc = "Idle"
    /\ run = 0
    /\ solvers = <<>>
    /\ i = 1
    /\ phase = "loop"
    /\ results_list = <<>>
    /\ invoked = <<>>
    /\ reports = <<>>
    /\ sys_stdout = "console"
    /\ old_targets = <<>>
    /\ buffer = ""
    /\ written = <<>>
    /\ sink = NotCalled
    /\ highs_log = NoFile
    /\ highslog = NotShown
    /\ removed = FALSE
    /\ chart = {}
    /\ last_chart = {}

\* st.file_uploader returns a file: the script writes it to disk and shows the form.
Upload ==
    /\ pc = "Idle"
    /\ pc' = "FileUploaded"
    /\ UNCHANGED <<run, solvers, i, phase, results_list, invoked, reports,
                   sys_stdout, old_targets, buffer, written, sink,
                   highs_log, highslog, removed, chart, last_chart>>

\* "Run!" is pressed with selection sel: the script reaches the loop with an
\* empty results_list and freshly created tabs.
Submit(sels) ==
    /\ pc = "FileUploaded"
    /\ run < MaxRuns
    /\ \E sel \in sels : solvers' = sel
    /\ pc' = "Running"
    /\ run' = run + 1
    /\ i' = 1
    /\ phase' = "loop"
    /\ results_list' = <<>>
    /\ invoked' = <<>>
    /\ reports' = <<>>
    /\ highslog' = NotShown
    /\ removed' = FALSE
    /\ chart' = {}
    /\ sink' = NotCalled
    /\ written' = <<>>
    /\ buffer' = ""
    /\ UNCHANGED <<sys_stdout, old_targets, highs_log, last_chart>>

\* The loop takes solver i: for Gurobi, SCIP and CBC it creates the placeholder
\* and enters st_capture (a new StringIO becomes sys.stdout, the old target is
\* saved), then calls the adapter; for HiGHS it calls the adapter directly.
EnterAdapter ==
    /\ pc = "Running"
    /\ phase = "loop"
    /\ i <= Len(solvers)
    /\ phase' = "call"
    /\ invoked' = Append(invoked, solvers[i])
    /\ IF UsesCapture(solvers[i])
       THEN /\ old_targets' = Append(old_targets, sys_stdout)
            /\ sys_stdout' = "StringIO"
            /\ buffer' = ""
            /\ written' = <<>>
            /\ sink' = NotCalled
       ELSE UNCHANGED <<old_targets, sys_stdout, buffer, written, sink>>
    /\ UNCHANGED <<pc, run, solvers, i, results_list, reports,
                   highs_log, highslog, removed, chart, last_chart>>

\* The backend prints during the call.  With sys.stdout redirected the write is
\* new_write: old_write(string), then output_func(stdout.getvalue()).
Write ==
    /\ pc = "Running"
    /\ phase = "call"
    /\ sys_stdout = "StringIO"
    /\ Len(written) < MaxWrites
    /\ \E string \in Strings :
          /\ buffer' = old_write(buffer, string)
          /\ sink' = Text(Forwarded(buffer, string))
          /\ written' = Append(written, string)
    /\ UNCHANGED <<pc, run, solvers, i, phase, results_list, invoked, reports,
                   sys_stdout, old_targets, highs_log, highslog, removed,
                   chart, last_chart>>

\* The effects common to both ways a call ends: st_capture is left (when it was
\* entered) and run_highs has acted on highs.log.
LeaveCall(b, raising) ==
    /\ reports' = Append(reports, b)
    /\ IF UsesCapture(solvers[i])
       THEN /\ sys_stdout' = RestoreStdout(old_targets, sys_stdout, raising)
            /\ old_targets' = SubSeq(old_targets, 1, Len(old_targets) - 1)
            /\ UNCHANGED <<highs_log, removed>>
       ELSE /\ highs_log' = HighsFiles(highs_log, b, run)
            /\ removed' = HighsRemoved(highs_log, b)
            /\ UNCHANGED <<sys_stdout, old_targets>>

\* The adapter returns a dictionary: it is appended, the region is left, the
\* HiGHS branch reads highs.log back and shows it, and the loop moves on.
AdapterReturns(cases) ==
    /\ pc = "Running"
    /\ phase = "call"
    /\ \E b \in cases :
          LET out == RunAdapter(solvers[i], b)
          IN  /\ out.kind = "return"
              /\ results_list' = CollectResult(results_list, out.rec)
              /\ LeaveCall(b, FALSE)
    /\ highslog' = IF solvers[i] = "HiGHS" THEN Text(highs_log'.text) ELSE highslog
    /\ i' = i + 1
    /\ phase' = "loop"
    /\ UNCHANGED <<pc, run, solvers, invoked, buffer, written, sink, chart, last_chart>>

\* The adapter raises: the error passes through st_capture (which is left) and
\* through every enclosing with statement, and ends the script run.
AdapterRaises(cases) ==
    /\ pc = "Running"
    /\ phase = "call"
    /\ \E b \in cases :
          /\ RunAdapter(solvers[i], b).kind = "raise"
          /\ LeaveCall(b, TRUE)
    /\ pc' = "Failed"
    /\ phase' = "loop"
    /\ UNCHANGED <<run, solvers, i, results_list, invoked, highslog,
                   buffer, written, sink, chart, last_chart>>

\* After the loop: the table and the chart.  pd.DataFrame([]) has no "solver"
\* column, so set_index raises when nothing was selected.
Render ==
    /\ pc = "Running"
    /\ phase = "loop"
    /\ i > Len(solvers)
    /\ IF results_list = <<>>
       THEN /\ pc' = "Failed"
            /\ UNCHANGED chart
       ELSE /\ pc' = "ResultsReady"
            /\ chart' = ColourScale(results_list)
    /\ UNCHANGED <<last_chart, run, solvers, i, phase, results_list, invoked, reports,
                   sys_stdout, old_targets, buffer, written, sink,
                   highs_log, highslog, removed>>

\* The script run has ended; the file is still uploaded.  The next interaction
\* runs the script again from the top: the names of the previous run are gone,
\* the page is rebuilt, and the form is shown ready for another submission.
\* highs.log stays in the working directory.
Rerun ==
    /\ pc \in {"ResultsReady", "Failed"}
    /\ run < MaxRuns
    /\ pc' = "FileUploaded"
    /\ solvers' = <<>>
    /\ i' = 1
    /\ results_list' = <<>>
    /\ invoked' = <<>>
    /\ reports' = <<>>
    /\ highslog' = NotShown
    /\ removed' = FALSE
    /\ chart' = {}
    /\ last_chart' = IF pc = "ResultsReady" THEN chart ELSE last_chart
    /\ UNCHANGED <<run, phase, sys_stdout, old_targets, buffer, written, sink,
                   highs_log>>

\* One run, against BackendCases, with the backends printing.
Next ==
    \/ Upload
    \/ Submit(Selections)
    \/ EnterAdapter
    \/ Write
    \/ AdapterReturns(BackendCases)
    \/ AdapterRaises(BackendCases)
    \/ Render

Spec == Init /\ [][Next]_vars

\* Runs one after another in the same working directory, against RunCases.
NextRuns ==
    \/ Upload
    \/ Submit(Selections)
    \/ EnterAdapter
    \/ AdapterReturns(RunCases)
    \/ AdapterRaises(RunCases)
    \/ Render
    \/ Rerun

SpecRuns == Init /\ [][NextRuns]_vars

\* The adapters alone, against every backend behaviour: one solver is
\* selected and its adapter is called once.
NextAdapters ==
    \/ Upload
    \/ Submit(SingleSelections)
    \/ EnterAdapter
    \/ AdapterReturns(Backends)
    \/ AdapterRaises(Backends)
    \/ Render

SpecAdapters == Init /\ [][NextAdapters]_vars

(***************************************************************************)
(* Properties.                                                             *)
(***************************************************************************)
\* The "solver" entry each adapter puts in its dictionary.
Label(s) ==
    CASE s = "Gurobi" -> "Gurobi x.y.z"
      [] s = "HiGHS"  -> "HiGHS x.y.z"
      [] s = "SCIP"   -> "SCIP x.y.z"
      [] s = "CBC"    -> "CBC"

RecordKeys == {"solver", "time", "iterations", "nodes", "gap", "objective", "status"}

RunEnded == pc \in {"ResultsReady", "Failed"}
InRegion == phase = "call" /\ UsesCapture(solvers[i])
CallRaised(k) == RunAdapter(solvers[k], reports[k]).kind = "raise"

\* C1: when a run has ended, every solver selected after an adapter that
\* raised has still been invoked.
C1_FailureDoesNotStopRemaining ==
    RunEnded =>
        \A k \in 1..Len(reports) :
            CallRaised(k) =>
                \A j \in (k + 1)..Len(solvers) :
                    j <= Len(invoked) /\ invoked[j] = solvers[j]

\* C2: outside an st_capture region, whether the last region was left by a
\* return or by an error, sys.stdout is the target it was before the region
\* and no saved target is left over.
C2_StdoutRestored ==
    ~InRegion => sys_stdout = "console" /\ old_targets = <<>>

\* C2 witness: a second captured call raised and the run ended.
C2_Witness ==
    /\ pc = "Failed"
    /\ Len(results_list) >= 1
    /\ Len(invoked) = Len(results_list) + 1
    /\ UsesCapture(invoked[1])
    /\ UsesCapture(invoked[Len(invoked)])
    /\ sys_stdout = "console"

\* C3: when a run has ended, results_list holds exactly one complete record
\* for each selected solver.
C3_OneRecordPerSolver ==
    RunEnded =>
        /\ Len(results_list) = Len(solvers)
        /\ \A k \in 1..Len(solvers) :
              /\ DOMAIN results_list[k] = RecordKeys
              /\ results_list[k].solver = Label(solvers[k])

\* C4: inside an st_capture region, once something has been written, the sink
\* has been called and the text it last received is the concatenation, in
\* order, of everything written in the region.
C4_SinkHasAllWrites ==
    (InRegion /\ written # <<>>) =>
        sink # NotCalled /\ sink = Text(Concat(written))

\* C4 witness: two different strings have been written in a region.
C4_Witness ==
    /\ InRegion
    /\ written = <<"y\n", "x">>
    /\ sink = Text("y\nx")

\* C5: the k-th record is that of the k-th selected solver, the adapters are
\* started in selection order, and a call starts only when every earlier call
\* has returned.
C5_SelectionOrder ==
    /\ Len(results_list) <= Len(solvers)
    /\ \A k \in 1..Len(results_list) : results_list[k].solver = Label(solvers[k])
    /\ Len(invoked) <= Len(solvers)
    /\ \A k \in 1..Len(invoked) : invoked[k] = solvers[k]
    /\ phase = "call" => Len(invoked) = Len(results_list) + 1
    /\ (pc = "Running" /\ phase = "loop") => Len(invoked) = Len(results_list)
    /\ pc = "ResultsReady" => Len(results_list) = Len(solvers)

\* C5 witness: all four solvers ran in an order other than the default one.
C5_Witness ==
    /\ pc = "ResultsReady"
    /\ solvers = <<"CBC", "SCIP", "HiGHS", "Gurobi">>
    /\ Len(results_list) = 4
    /\ results_list[1].solver = "CBC"
    /\ results_list[4].solver = "Gurobi x.y.z"

\* C6: whenever a read of a metric an adapter queries raises after a
\* successful optimize, the adapter returns a record with that metric None.
C6_FailedReadGivesNone ==
    \A k \in 1..Len(reports) :
        reports[k].fail = "none" =>
            \A m \in Queried(solvers[k]) :
                reports[k][m] = Raise =>
                    /\ k <= Len(results_list)
                    /\ results_list[k][m] = None

\* C7: every metric of every record is None or the value the backend reported;
\* it is None exactly when the adapter does not query it or the read raised,
\* so a zero in a record is a zero the backend reported; CBC's iterations and
\* nodes are always None.
C7_AbsentIsNone ==
    \A k \in 1..Len(results_list) :
        LET r == results_list[k]
            b == reports[k]
            s == solvers[k]
        IN  /\ \A m \in Metrics :
                  /\ r[m] \in MetricValues \cup {None}
                  /\ r[m] = None \/ r[m] = b[m]
                  /\ r[m] = None <=> (m \notin Queried(s) \/ b[m] = Raise)
            /\ s = "CBC" => r.iterations = None /\ r.nodes = None

\* C7 witness: Gurobi's gap read raised while it reported zero nodes.
C7_Witness ==
    /\ Len(results_list) = 1
    /\ solvers[1] = "Gurobi"
    /\ reports[1].gap = Raise
    /\ results_list[1].gap = None
    /\ results_list[1].nodes = Val(0)

\* C8: a solver label drawn by this run's chart and by the last chart of an
\* earlier run has the same colour in both.
C8_FixedColourPerSolver ==
    \A p \in chart, q \in last_chart : p[1] = q[1] => p[2] = q[2]

\* C9: a script run is always in one of the states Idle, FileUploaded,
\* Running, ResultsReady.
C9_FourStates ==
    pc \in {"Idle", "FileUploaded", "Running", "ResultsReady"}

\* C10: the log text shown in the HiGHS tab holds only lines written by the
\* current run's solve.
C10_LogOfThisRunOnly ==
    highslog # NotShown =>
        \A k \in 1..Len(highslog[2]) : highslog[2][k] = run

\* C10 witness: a later run found the earlier run's highs.log, removed it,
\* and showed its own log.
C10_Witness ==
    /\ run = 2
    /\ removed
    /\ highslog = Text(<<2>>)

====
